---- MODULE Spec2Model ----
(***************************************************************************)
(* A model of pybug.transform (src/pybug/transform/__init__.py):           *)
(*   - AffineTransformation / Translation / Rotation (chain, apply),       *)
(*   - Alignment.__init__,                                                 *)
(*   - ParallelAlignment (__init__, aligned_version_of_source),            *)
(*   - _numpy_hash.                                                        *)
(* A numpy array is a record [shape, data]: its shape tuple and its        *)
(* buffer in C (row-major) order.  Array objects live in `heap`, so that   *)
(* two names bound to one object (self.source = source) see each other's   *)
(* in-place writes, while a copy (source.copy()) is a new object.          *)
(* An instance is the function from its assigned attribute names to their  *)
(* values (its __dict__); an attribute not yet assigned is not in DOMAIN.  *)
(***************************************************************************)
EXTENDS Integers, Sequences, FiniteSets, TLC

VARIABLES
    pc,     \* position of the calling program
    err,    \* the exception the last call raised ("none": it returned)
    heap,   \* array objects: object id -> array
    al,     \* the Alignment instance (attribute -> value)
    par,    \* the ParallelAlignment instance (attribute -> value)
    ret,    \* what the last aligned_version_of_source / apply call returned
    tf      \* the transforms of the calling program (name -> transform)

vars == <<pc, err, heap, al, par, ret, tf>>

----------------------------------------------------------------------------
(* Bounds *)

\* Alignment: arrays of 0..MaxRank axes, each axis of length 0..MaxAxis
MaxRank == 3
MaxAxis == 2
\* ParallelAlignment: 1..MaxSources sources of 1..MaxDim landmarks/dimensions,
\* element values 0..MaxVal
MaxSources == 2
MaxDim == 2
MaxVal == 1
\* Transforms: dimension 1..MaxN, matrix entries 0..MaxEntry, point sets of
\* 1..MaxPts points
MaxN == 2
MaxEntry == 1
MaxPts == 2

----------------------------------------------------------------------------
(* numpy arrays *)

\* No object / no value (Python's None, and the model's "no result").
None == [none |-> TRUE]

RECURSIVE Prod(_)
Prod(s) == IF s = <<>> THEN 1 ELSE Head(s) * Prod(Tail(s))

\* number of elements of an array of shape s (ndarray.size)
Size(s) == Prod(s)

Arr(s, d) == [shape |-> s, data |-> d]

\* np.zeros(shape)
Zeros(s) == Arr(s, [k \in 1..Size(s) |-> 0])

\* element [i, j] of a 2-D array, 1-based
At2(a, i, j) == a.data[(i - 1) * a.shape[2] + j]

\* element [i, j, k] of a 3-D array, 1-based
At3(a, i, j, k) == a.data[((i - 1) * a.shape[2] + (j - 1)) * a.shape[3] + k]

\* the 1-D array of n elements f[1], ..., f[n]
Build1(n, f) == Arr(<<n>>, [k \in 1..n |-> f[k]])

\* the 2-D array of shape (L, D) with element [i, j] = f[i, j]
Build2(L, D, f) ==
    Arr(<<L, D>>, [k \in 1..(L * D) |-> f[((k - 1) \div D) + 1, ((k - 1) % D) + 1]])

\* the 3-D array of shape (L, D, N) with element [i, j, n] = f[i, j, n]
Build3(L, D, N, f) ==
    Arr(<<L, D, N>>,
        [k \in 1..(L * D * N) |->
            f[((k - 1) \div (D * N)) + 1, (((k - 1) \div N) % D) + 1, ((k - 1) % N) + 1]])

\* ndarray.copy(): a new buffer with the same shape and elements
Copy(a) == Arr(a.shape, [k \in 1..Len(a.data) |-> a.data[k]])

\* a[k] = v on the flat buffer: an in-place write of one element
WriteFlat(a, k, v) == Arr(a.shape, [a.data EXCEPT ![k] = v])

----------------------------------------------------------------------------
(* Alignment *)

\* the shapes of the arrays handed to Alignment: 0..MaxRank axes
AlignShapes == UNION {[1..r -> 0..MaxAxis] : r \in 0..MaxRank}

\* a faulty variant: only a shape of fewer than two entries fails to unpack
UnpackFailsMutant(shape) == Len(shape) < 2

\* `a, b = shape` raises ValueError unless the tuple has exactly two entries
UnpackFails(shape) == Len(shape) # 2

\* Python truth value of an integer
Truthy(x) == x # 0

\* `assert self.n_dim, self.n_landmarks == target.shape`: the asserted
\* expression is self.n_dim alone; the comparison after the comma is the
\* assertion's message and decides nothing.
AssertShapePasses(n_dim, n_landmarks, target_shape) == Truthy(n_dim)

\* Alignment.__init__(self, source, target) on the heap h, where the caller's
\* arrays are the objects "source" and "target".  Returns the instance as far
\* as it was assigned, the heap, and the exception raised.
AlignmentInit(h) ==
    LET s1 == ("source" :> "source")
        h1 == [h EXCEPT !["aligned"] = Copy(h[s1["source"]])]
        s2 == s1 @@ ("aligned_source" :> "aligned")
        shape == h1[s2["source"]].shape
    IN  IF UnpackFails(shape)
        THEN [self |-> s2, heap |-> h1, err |-> "AlignmentError"]
        ELSE LET s3 == s2 @@ ("n_landmarks" :> shape[1]) @@ ("n_dim" :> shape[2])
             IN  IF ~AssertShapePasses(s3["n_dim"], s3["n_landmarks"], h1["target"].shape)
                 THEN [self |-> s3, heap |-> h1, err |-> "AssertionError"]
                 ELSE [self |-> s3 @@ ("target" :> "target"), heap |-> h1, err |-> "none"]

\* the empty instance / attribute dictionary
NoAttrs == [x \in {} |-> x]
NoTransforms == [x \in {} |-> x]

InitAlign ==
    /\ pc = "start"
    /\ err = "none"
    /\ \E s, t \in AlignShapes :
          heap = [source |-> Zeros(s), target |-> Zeros(t), aligned |-> None]
    /\ al = NoAttrs
    /\ par = NoAttrs
    /\ ret = None
    /\ tf = NoTransforms

\* the caller evaluates Alignment(source, target)
NewAlignment ==
    /\ pc = "start"
    /\ LET r == AlignmentInit(heap)
       IN  /\ al' = r.self
           /\ heap' = r.heap
           /\ err' = r.err
           /\ pc' = IF r.err = "none" THEN "built" ELSE "failed"
    /\ UNCHANGED <<par, ret, tf>>

\* the caller (or another instance built from the same arrays) writes one
\* element of an array object it passed in: source[k] = v or target[k] = v
CallerWrite ==
    /\ pc = "built"
    /\ \E id \in {"source", "target"} :
       \E k \in 1..Len(heap[id].data) :
       \E v \in 0..MaxVal :
          /\ heap[id].data[k] # v
          /\ heap' = [heap EXCEPT ![id] = WriteFlat(heap[id], k, v)]
    /\ pc' = "caller_wrote"
    /\ UNCHANGED <<err, al, par, ret, tf>>

\* a warp writes one element of self.aligned_source in place
WriteAligned ==
    /\ pc = "built"
    /\ \E k \in 1..Len(heap[al["aligned_source"]].data) :
       \E v \in 0..MaxVal :
          /\ heap[al["aligned_source"]].data[k] # v
          /\ heap' = [heap EXCEPT ![al["aligned_source"]] = WriteFlat(@, k, v)]
    /\ pc' = "aligned_wrote"
    /\ UNCHANGED <<err, al, par, ret, tf>>

NextAlign == NewAlignment \/ CallerWrite \/ WriteAligned

SpecAlign == InitAlign /\ [][NextAlign]_vars

\* what the instance sees through its attributes
AlSource == heap[al["source"]]
AlAligned == heap[al["aligned_source"]]
AlTarget == heap[al["target"]]

----------------------------------------------------------------------------
(* Claims about Alignment (checked under SpecAlign) *)

\* C1: constructing Alignment(source, target) with a 2-D source and a target
\* of a different shape raises an error, and no instance with a target
\* attribute is produced.
C1_MismatchFailsFast ==
    (/\ pc # "start"
     /\ Len(heap["source"].shape) = 2
     /\ heap["target"].shape # heap["source"].shape)
    => (err # "none" /\ "target" \notin DOMAIN al)

\* C8: a source whose number of axes is not 2 raises AlignmentError whatever
\* the target is; a 2-D source raises no AlignmentError and n_landmarks,
\* n_dim are the two entries of source.shape.
C8_NonTwoDRaisesAlignmentError ==
    pc # "start" =>
        IF Len(heap["source"].shape) # 2
        THEN err = "AlignmentError"
        ELSE /\ err # "AlignmentError"
             /\ al["n_landmarks"] = heap["source"].shape[1]
             /\ al["n_dim"] = heap["source"].shape[2]

\* C8 witness: a 1-D source was passed and the constructor raised
\* AlignmentError.
C8_Witness ==
    /\ pc = "failed"
    /\ Len(heap["source"].shape) = 1
    /\ heap["source"].shape[1] = MaxAxis
    /\ err = "AlignmentError"

\* C9: an instance owns its arrays exclusively: a write by the caller to the
\* arrays it passed in leaves the instance's source, aligned_source and
\* target unchanged, and a write to aligned_source leaves source and target
\* unchanged.
C9_ExclusiveOwnership ==
    [][/\ (pc = "built" /\ pc' = "caller_wrote")
            => (AlSource' = AlSource /\ AlAligned' = AlAligned /\ AlTarget' = AlTarget)
       /\ (pc = "built" /\ pc' = "aligned_wrote")
            => (AlSource' = AlSource /\ AlTarget' = AlTarget)]_vars

----------------------------------------------------------------------------
(* ParallelAlignment *)

\* an array of shape s whose buffer counts up from v, modulo MaxVal + 1
Ramp(s, v) == Arr(s, [k \in 1..Size(s) |-> (v + k - 1) % (MaxVal + 1)])

\* t[:, :, i] of a 3-D array, i counted from 0 as in Python
Slice3(t, i) ==
    Build2(t.shape[1], t.shape[2],
           [l \in 1..t.shape[1], d \in 1..t.shape[2] |-> At3(t, l, d, i + 1)])

\* whether an array of 2-D shape s broadcasts to shape (L, D)
BroadcastsTo(s, L, D) ==
    /\ Len(s) = 2
    /\ s[1] \in {L, 1}
    /\ s[2] \in {D, 1}

\* element [l, d] of the 2-D array a broadcast to a larger shape
BroadcastAt(a, l, d) ==
    At2(a, IF a.shape[1] = 1 THEN 1 ELSE l, IF a.shape[2] = 1 THEN 1 ELSE d)

\* t[:, :, i] = a, i counted from 0: the tensor after the assignment
SetSlice3(t, i, a) ==
    Build3(t.shape[1], t.shape[2], t.shape[3],
           [l \in 1..t.shape[1], d \in 1..t.shape[2], n \in 1..t.shape[3] |->
               IF n = i + 1 THEN BroadcastAt(a, l, d) ELSE At3(t, l, d, n)])

\* array.view(np.uint8): the buffer of the array in memory order, without
\* its shape (an element is one byte wide here)
ViewBytes(a) == a.data

\* hashlib.sha1(...).hexdigest(): a digest that differs for different byte
\* strings (bijective numeration of the byte string in base MaxVal + 2)
RECURSIVE Sha1Hex(_)
Sha1Hex(bytes) ==
    IF bytes = <<>> THEN 0
    ELSE (Head(bytes) + 1) + (MaxVal + 2) * Sha1Hex(Tail(bytes))

\* a faulty variant: only the first byte is digested
NumpyHashMutant(array) == Sha1Hex(<<Head(ViewBytes(array))>>)

\* _numpy_hash(array)
NumpyHash(array) == Sha1Hex(ViewBytes(array))

\* a faulty variant: a key already present keeps its index
LookupSetMutant(lookup, h, i) == lookup @@ (h :> i)

\* self._lookup[source_hash] = i
LookupSet(lookup, h, i) == (h :> i) @@ lookup

RECURSIVE GCD(_, _)
GCD(a, b) == IF b = 0 THEN a ELSE GCD(b, a % b)

\* the quotient a / b (b > 0) as a fraction in lowest terms
Frac(a, b) == [num |-> a \div GCD(a, b), den |-> b \div GCD(a, b)]

RECURSIVE SumAxis2(_, _, _, _)
SumAxis2(t, l, d, n) == IF n = 0 THEN 0 ELSE At3(t, l, d, n) + SumAxis2(t, l, d, n - 1)

\* a faulty variant: the sum is divided by one more than the number of sources
Mean2Mutant(t) ==
    Build2(t.shape[1], t.shape[2],
           [l \in 1..t.shape[1], d \in 1..t.shape[2] |->
               Frac(SumAxis2(t, l, d, t.shape[3]), t.shape[3] + 1)])

\* t.mean(2): the mean along the third axis, a 2-D array of fractions
Mean2(t) ==
    Build2(t.shape[1], t.shape[2],
           [l \in 1..t.shape[1], d \in 1..t.shape[2] |->
               Frac(SumAxis2(t, l, d, t.shape[3]), t.shape[3])])

\* a[..., np.newaxis]: a view of the object `id` with one more axis of length 1
NewAxisView(id) == [base |-> id, newaxis |-> TRUE]

\* the array a view denotes on heap h
ViewValue(h, v) == Arr(h[v.base].shape \o <<1>>, h[v.base].data)

\* the caller's `sources` argument: a bare ndarray or a list of ndarrays
AsList(sources) == IF sources.type = "ndarray" THEN <<sources.items>> ELSE sources.items

\* the body of `for i, source in enumerate(sources)`, from index i on
RECURSIVE ParInitLoop(_, _, _, _, _)
ParInitLoop(st, sources, i, n_landmarks, n_dim) ==
    IF i >= Len(sources) \/ st.err # "none" THEN st
    ELSE LET source == sources[i + 1]
         IN  IF ~AssertShapePasses(n_dim, n_landmarks, source.shape)
             THEN [st EXCEPT !.err = "AssertionError"]
             ELSE IF ~BroadcastsTo(source.shape, n_landmarks, n_dim)
             THEN [st EXCEPT !.err = "ValueError"]
             ELSE ParInitLoop(
                    [st EXCEPT
                       !.heap["self_sources"] = SetSlice3(@, i, source),
                       !.self = [@ EXCEPT !["_lookup"] = LookupSet(@, NumpyHash(source), i)]],
                    sources, i + 1, n_landmarks, n_dim)

\* the tail of ParallelAlignment.__init__: lines 183-189
ParInitTarget(st, n_landmarks, n_dim) ==
    LET h1 == [st.heap EXCEPT !["self_aligned"] = Copy(st.heap["self_sources"])]
        s1 == st.self @@ ("aligned_sources" :> "self_aligned")
    IN  IF h1["target"] = None
        THEN [self |-> s1 @@ ("target" :> NewAxisView("self_mean")),
              heap |-> [h1 EXCEPT !["self_mean"] = Mean2(h1["self_sources"])],
              err |-> "none"]
        ELSE IF ~AssertShapePasses(n_dim, n_landmarks, h1["target"].shape)
        THEN [self |-> s1, heap |-> h1, err |-> "AssertionError"]
        ELSE [self |-> s1 @@ ("target" :> NewAxisView("target")), heap |-> h1, err |-> "none"]

\* ParallelAlignment.__init__(self, sources, target=None) on the heap h, where
\* the caller's arguments are the objects "sources" and "target"
ParallelAlignmentInit(h) ==
    LET s0 == ("_lookup" :> [x \in {} |-> x])
        sources == AsList(h["sources"])
        n_sources == Len(sources)
        n_landmarks == sources[1].shape[1]
        n_dim == sources[1].shape[2]
        h1 == [h EXCEPT !["self_sources"] = Zeros(<<n_landmarks, n_dim, n_sources>>)]
        s1 == s0 @@ ("sources" :> "self_sources")
        st == ParInitLoop([self |-> s1, heap |-> h1, err |-> "none"],
                          sources, 0, n_landmarks, n_dim)
    IN  IF st.err # "none" THEN st ELSE ParInitTarget(st, n_landmarks, n_dim)

\* a faulty variant: the slice is taken from self.sources
AlignedVersionOfSourceMutant(self, source) ==
    LET h == NumpyHash(source)
    IN  IF h \notin DOMAIN self["_lookup"]
        THEN [err |-> "KeyError", result |-> None]
        ELSE [err |-> "none",
              result |-> [base |-> self["sources"], index |-> self["_lookup"][h]]]

\* ParallelAlignment.aligned_version_of_source(self, source): the view
\* self.aligned_sources[..., i], or KeyError
AlignedVersionOfSource(self, source) ==
    LET h == NumpyHash(source)
    IN  IF h \notin DOMAIN self["_lookup"]
        THEN [err |-> "KeyError", result |-> None]
        ELSE [err |-> "none",
              result |-> [base |-> self["aligned_sources"], index |-> self["_lookup"][h]]]

\* the 2-D shapes and arrays handed to ParallelAlignment
ParShapes == {<<l, d>> : l \in 1..MaxDim, d \in 1..MaxDim}
ParArrays == {Ramp(s, v) : s \in ParShapes, v \in 0..MaxVal}

\* the `sources` arguments whose arrays have the shapes in the set S: a list
\* of 1..MaxSources arrays, or one bare array
SourcesArgs(S) ==
    LET A == {a \in ParArrays : a.shape \in S}
    IN  {[type |-> "ndarray", items |-> a] : a \in A}
        \cup {[type |-> "list", items |-> q] :
                q \in UNION {[1..n -> A] : n \in 1..MaxSources}}

ParHeap(sources, target) ==
    [sources |-> sources, target |-> target,
     self_sources |-> None, self_aligned |-> None, self_mean |-> None]

InitParCommon ==
    /\ pc = "start"
    /\ err = "none"
    /\ al = NoAttrs
    /\ par = NoAttrs
    /\ ret = None
    /\ tf = NoTransforms

\* sources of one shape, and no target or a target of that shape
InitPar ==
    /\ InitParCommon
    /\ \E s \in ParShapes :
       \E srcs \in SourcesArgs({s}) :
       \E t \in {None, Ramp(s, 0)} :
          heap = ParHeap(srcs, t)

\* sources and target of any 2-D shapes
InitParShapes ==
    /\ InitParCommon
    /\ \E srcs \in SourcesArgs(ParShapes) :
       \E t \in {None} \cup {Ramp(s, 0) : s \in ParShapes} :
          heap = ParHeap(srcs, t)

\* the caller evaluates ParallelAlignment(sources, target)
NewParallelAlignment ==
    /\ pc = "start"
    /\ LET r == ParallelAlignmentInit(heap)
       IN  /\ par' = r.self
           /\ heap' = r.heap
           /\ err' = r.err
           /\ pc' = IF r.err = "none" THEN "built" ELSE "failed"
    /\ UNCHANGED <<al, ret, tf>>

\* the caller stores an alignment result: self.aligned_sources[:, :, i] = a
\* (a view returned by an earlier lookup is dropped)
UpdateAligned ==
    /\ pc \in {"built", "queried"}
    /\ \E i \in 0..(heap["self_aligned"].shape[3] - 1) :
       \E v \in 0..MaxVal :
          LET a == Ramp(<<heap["self_aligned"].shape[1], heap["self_aligned"].shape[2]>>, v)
          IN  /\ Slice3(heap["self_aligned"], i) # a
              /\ heap' = [heap EXCEPT ![par["aligned_sources"]] = SetSlice3(@, i, a)]
    /\ pc' = "built"
    /\ ret' = None
    /\ UNCHANGED <<err, al, par, tf>>

\* the record of a call of aligned_version_of_source: the array passed, the
\* position of the caller's source object that was passed (-1: another
\* array), and what the call returned
Called(source, pos, r) == [source |-> source, pos |-> pos, result |-> r.result]

\* the caller calls aligned_version_of_source(sources[i])
QuerySource ==
    /\ pc = "built"
    /\ \E i \in 0..(Len(AsList(heap["sources"])) - 1) :
          LET source == AsList(heap["sources"])[i + 1]
              r == AlignedVersionOfSource(par, source)
          IN  /\ ret' = Called(source, i, r)
              /\ err' = r.err
    /\ pc' = "queried"
    /\ UNCHANGED <<heap, al, par, tf>>

\* the caller calls aligned_version_of_source(a) with an array of its own
QueryOther ==
    /\ pc = "built"
    /\ \E a \in ParArrays :
          LET r == AlignedVersionOfSource(par, a)
          IN  /\ ret' = Called(a, -1, r)
              /\ err' = r.err
    /\ pc' = "queried"
    /\ UNCHANGED <<heap, al, par, tf>>

\* sources[i][k] = v on the caller's `sources` argument
WriteSource(sources, i, k, v) ==
    IF sources.type = "ndarray"
    THEN [sources EXCEPT !.items = WriteFlat(@, k, v)]
    ELSE [sources EXCEPT !.items[i + 1] = WriteFlat(@, k, v)]

\* the caller changes one element of a source it passed at construction, in
\* place (sources[i][k] += 1, within the element values of the model), and
\* then calls aligned_version_of_source with that array
QueryMutated ==
    /\ pc = "built"
    /\ \E i \in 0..(Len(AsList(heap["sources"])) - 1) :
       \E k \in 1..Len(AsList(heap["sources"])[i + 1].data) :
          LET v == (AsList(heap["sources"])[i + 1].data[k] + 1) % (MaxVal + 1)
              h1 == [heap EXCEPT !["sources"] = WriteSource(@, i, k, v)]
              source == AsList(h1["sources"])[i + 1]
              r == AlignedVersionOfSource(par, source)
          IN  /\ heap' = h1
              /\ ret' = Called(source, i, r)
              /\ err' = r.err
    /\ pc' = "queried_mutated"
    /\ UNCHANGED <<al, par, tf>>

\* the caller writes one element of the target array it passed
CallerWriteTarget ==
    /\ pc = "built"
    /\ heap["target"] # None
    /\ \E k \in 1..Len(heap["target"].data) :
       \E v \in 0..MaxVal :
          /\ heap["target"].data[k] # v
          /\ heap' = [heap EXCEPT !["target"] = WriteFlat(@, k, v)]
    /\ pc' = "caller_wrote"
    /\ UNCHANGED <<err, al, par, ret, tf>>

NextPar ==
    \/ NewParallelAlignment
    \/ UpdateAligned
    \/ QuerySource
    \/ QueryOther
    \/ QueryMutated
    \/ CallerWriteTarget

SpecPar == InitPar /\ [][NextPar]_vars

SpecParShapes == InitParShapes /\ [][NextPar]_vars

\* what the instance sees through its attributes
ParSources == heap[par["sources"]]
ParAligned == heap[par["aligned_sources"]]
ParTarget == ViewValue(heap, par["target"])
\* the array a returned view denotes
RetValue == Slice3(heap[ret.result.base], ret.result.index)

----------------------------------------------------------------------------
(* Claims about ParallelAlignment (checked under SpecPar, C2 under          *)
(* SpecParShapes)                                                          *)

\* the caller's list of sources, and the number of sources
CallerSources == AsList(heap["sources"])
NSources == Len(CallerSources)

\* the i-th source as it was at construction (i from 0): sources of one
\* shape are stacked unchanged, so it is the i-th slice of self.sources
ConstructedSource(i) == Slice3(ParSources, i)

\* the greatest position at which a source with the content of source i was
\* inserted
LastSameContent(i) ==
    CHOOSE j \in 0..(NSources - 1) :
        /\ ConstructedSource(j) = ConstructedSource(i)
        /\ \A m \in (j + 1)..(NSources - 1) : ConstructedSource(m) # ConstructedSource(i)

\* C2: construction fails whenever a source has a shape other than the first
\* source's, and whenever an explicit target has a shape other than the first
\* source's; no instance with a target attribute is produced.
C2_ShapeMismatchFails ==
    (/\ pc # "start"
     /\ \/ \E i \in 1..NSources : CallerSources[i].shape # CallerSources[1].shape
        \/ (heap["target"] # None /\ heap["target"].shape # CallerSources[1].shape))
    => (err # "none" /\ "target" \notin DOMAIN par)

\* C3 as claimed: aligned_version_of_source(s_i) returns the slice
\* aligned_sources[:, :, i], whether or not the sources differ in content.
C3_ReturnsOwnSlice ==
    (pc = "queried" /\ ret.pos >= 0)
    => (err = "none" /\ RetValue = Slice3(ParAligned, ret.pos))

\* C3 as amended: aligned_version_of_source(s_i) returns the view
\* aligned_sources[:, :, j], j being the greatest position at which a source
\* with the content of s_i was inserted (j = i when the sources differ
\* pairwise in content), after any sequence of updates of aligned_sources.
C3_ReturnsLastSameContentSlice ==
    (pc = "queried" /\ ret.pos >= 0)
    => /\ err = "none"
       /\ ret.result.base = par["aligned_sources"]
       /\ ret.result.index = LastSameContent(ret.pos)
       /\ RetValue = Slice3(ParAligned, LastSameContent(ret.pos))
       /\ (\A j \in 0..(NSources - 1) :
              j # ret.pos => ConstructedSource(j) # ConstructedSource(ret.pos))
          => ret.result.index = ret.pos

\* C3 witness: two sources of equal content were passed, their aligned slices
\* were updated to differ, and the first source was looked up.
C3_Witness ==
    /\ pc = "queried"
    /\ ret.pos = 0
    /\ NSources >= 2
    /\ ConstructedSource(0) = ConstructedSource(1)
    /\ Slice3(ParAligned, 0) # Slice3(ParAligned, 1)
    /\ Slice3(ParAligned, 0) # Slice3(ParSources, 0)
    /\ ret.result.index = 1

\* whether the array passed to the last lookup differs, in shape or in
\* element values, from every source passed at construction
NeverPassed == \A i \in 0..(NSources - 1) : ret.source # ConstructedSource(i)

\* whether the byte content of the array passed to the last lookup differs
\* from that of every source passed at construction
NoSourceWithSameBytes ==
    \A i \in 0..(NSources - 1) : ViewBytes(ret.source) # ViewBytes(ConstructedSource(i))

\* C4 as claimed: aligned_version_of_source(a) raises the lookup error for
\* every array a that differs from each constructed source in shape or in
\* element values.
C4_NeverPassedRaises ==
    (pc \in {"queried", "queried_mutated"} /\ NeverPassed)
    => (err = "KeyError" /\ ret.result = None)

\* C4 as amended: aligned_version_of_source(a) raises the lookup error and
\* returns nothing for every array a whose byte content (flat element
\* sequence) differs from that of each constructed source, a mutated source
\* included, and leaves the instance unchanged; an array with the flat
\* element sequence of a source and another shape is found.
C4_OtherBytesRaises ==
    [][(pc' \in {"queried", "queried_mutated"})
        => /\ NoSourceWithSameBytes'
              => /\ err' = "KeyError"
                 /\ ret'.result = None
                 /\ par' = par
                 /\ ParSources' = ParSources
                 /\ ParAligned' = ParAligned
                 /\ ParTarget' = ParTarget
           /\ ~NoSourceWithSameBytes' => err' = "none"]_vars

\* C4 witness: the caller mutated a source it had passed and looked it up,
\* and the lookup raised KeyError.
C4_Witness ==
    /\ pc = "queried_mutated"
    /\ NSources >= 2
    /\ ret.pos = 1
    /\ NoSourceWithSameBytes
    /\ err = "KeyError"

\* the sum over the caller's sources of element [l, d]
RECURSIVE SumSources(_, _, _)
SumSources(l, d, n) ==
    IF n = 0 THEN 0 ELSE At2(CallerSources[n], l, d) + SumSources(l, d, n - 1)

\* C7: constructed with no target, target has shape (L, D, 1), target[l, d, 0]
\* is the mean over the sources of element [l, d], and aligned_sources equals
\* sources element-wise.
C7_TargetIsMean ==
    [][(pc = "start" /\ pc' = "built" /\ heap["target"] = None)
        => LET L == CallerSources[1].shape[1]
               D == CallerSources[1].shape[2]
           IN  /\ ParTarget'.shape = <<L, D, 1>>
               /\ \A l \in 1..L : \A d \in 1..D :
                     LET m == At3(ParTarget', l, d, 1)
                     IN  /\ m.den > 0
                         /\ NSources * m.num = m.den * SumSources(l, d, NSources)
               /\ ParSources'.shape = <<L, D, NSources>>
               /\ \A l \in 1..L : \A d \in 1..D : \A n \in 1..NSources :
                     /\ At3(ParSources', l, d, n) = At2(CallerSources[n], l, d)
                     /\ At3(ParAligned', l, d, n) = At3(ParSources', l, d, n)
               /\ ParAligned'.shape = ParSources'.shape]_vars

\* C7 witness: MaxSources sources were passed with no target, and an element
\* of the mean is not a whole number.
C7_Witness ==
    /\ pc = "built"
    /\ heap["target"] = None
    /\ NSources = MaxSources
    /\ ParAligned = ParSources
    /\ \E l \in 1..ParTarget.shape[1] : \E d \in 1..ParTarget.shape[2] :
          At3(ParTarget, l, d, 1).den > 1

\* the invariant of C10 on the lookup of a constructed instance
LookupInv ==
    LET lk == par["_lookup"]
    IN  /\ \A h \in DOMAIN lk : lk[h] \in 0..(NSources - 1)
        /\ Cardinality(DOMAIN lk)
             = Cardinality({ViewBytes(CallerSources[i]) : i \in 1..NSources})
        /\ Cardinality(DOMAIN lk) <= NSources
        /\ \A i \in 1..NSources :
              /\ NumpyHash(CallerSources[i]) \in DOMAIN lk
              /\ LET j == lk[NumpyHash(CallerSources[i])]
                 IN  /\ ViewBytes(CallerSources[j + 1]) = ViewBytes(CallerSources[i])
                     /\ \A m \in (j + 2)..NSources :
                           ViewBytes(CallerSources[m]) # ViewBytes(CallerSources[i])

\* C10: after construction every value of _lookup is an index in 0..N-1, it
\* has one key per distinct byte content among the sources, the key of each
\* source maps to the greatest index of a source with the same byte content,
\* and no later operation changes _lookup.
C10_LookupInvariant ==
    [][/\ (pc = "start" /\ pc' = "built") => LookupInv'
       /\ pc # "start" => par'["_lookup"] = par["_lookup"]]_vars

\* C10 witness: two sources of equal content were passed, so _lookup has
\* fewer keys than sources, and a lookup and an update have happened.
C10_Witness ==
    /\ pc = "queried"
    /\ NSources = MaxSources
    /\ Cardinality(DOMAIN par["_lookup"]) < NSources
    /\ ParAligned # ParSources

----------------------------------------------------------------------------
(* AffineTransformation, Translation, Rotation *)

\* np.eye(m)
Eye(m) == Build2(m, m, [i \in 1..m, j \in 1..m |-> IF i = j THEN 1 ELSE 0])

RECURSIVE SumSeq(_)
\* the sum of the entries of a sequence
SumSeq(q) == IF q = <<>> THEN 0 ELSE Head(q) + SumSeq(Tail(q))

\* np.dot(a, b) for a 2-D a and a 1-D or 2-D b: the matrix product, or
\* ValueError when the last axis of a and the first axis of b differ in length
Dot(a, b) ==
    IF a.shape[2] # b.shape[1]
    THEN [err |-> "ValueError", value |-> None]
    ELSE IF Len(b.shape) = 1
    THEN [err |-> "none",
          value |-> Build1(a.shape[1],
                           [i \in 1..a.shape[1] |->
                               SumSeq([k \in 1..a.shape[2] |-> At2(a, i, k) * b.data[k]])])]
    ELSE [err |-> "none",
          value |-> Build2(a.shape[1], b.shape[2],
                           [i \in 1..a.shape[1], j \in 1..b.shape[2] |->
                               SumSeq([k \in 1..a.shape[2] |-> At2(a, i, k) * At2(b, k, j)])])]

\* x + t for a 1-D t and a 1-D or 2-D x whose last axis has the length of t:
\* t is added to x, or to every row of x
AddRow(x, t) ==
    Arr(x.shape, [k \in 1..Len(x.data) |-> x.data[k] + t.data[((k - 1) % t.shape[1]) + 1]])

\* AffineTransformation.__init__(self, homogeneous_matrix)
AffineTransformation(homogeneous_matrix) ==
    [cls |-> "AffineTransformation", homogeneous_matrix |-> homogeneous_matrix]

\* AffineTransformation.linear_transformation: homogeneous_matrix[:-1, :-1]
LinearTransformation(self) ==
    LET m == self.homogeneous_matrix
    IN  Build2(m.shape[1] - 1, m.shape[2] - 1,
               [i \in 1..(m.shape[1] - 1), j \in 1..(m.shape[2] - 1) |-> At2(m, i, j)])

\* AffineTransformation.translation: homogeneous_matrix[-1, :-1]
TranslationOf(self) ==
    LET m == self.homogeneous_matrix
    IN  Build1(m.shape[2] - 1, [j \in 1..(m.shape[2] - 1) |-> At2(m, m.shape[1], j)])

\* AffineTransformation.chain(self, x)
Chain(self, x) ==
    AffineTransformation(Dot(self.homogeneous_matrix, x.homogeneous_matrix).value)

\* AffineTransformation.apply(self, x)
Apply(self, x) == Dot(LinearTransformation(self), AddRow(x, TranslationOf(self)))

\* Translation.__init__(self, transformation)
Translation(transformation) ==
    LET m == transformation.shape[1] + 1
    IN  [cls |-> "Translation",
         homogeneous_matrix |->
            Build2(m, m, [i \in 1..m, j \in 1..m |->
                             IF i = m /\ j < m THEN transformation.data[j]
                             ELSE At2(Eye(m), i, j)])]

\* Rotation.__init__(self, rotation)
Rotation(rotation) ==
    LET m == rotation.shape[1] + 1
    IN  [cls |-> "Rotation",
         homogeneous_matrix |->
            Build2(m, m, [i \in 1..m, j \in 1..m |->
                             IF i < m /\ j < m THEN At2(rotation, i, j)
                             ELSE At2(Eye(m), i, j)])]

\* the arrays of shape s with entries 0..MaxEntry
ArraysOf(s) == {Arr(s, d) : d \in [1..Size(s) -> 0..MaxEntry]}

\* the dimension of a transform
DimOf(t) == t.homogeneous_matrix.shape[1] - 1

\* the dimensions a new transform may have: that of the transforms made so far
OpenDims == IF DOMAIN tf = {} THEN 1..MaxN ELSE {DimOf(tf[nm]) : nm \in DOMAIN tf}

InitAff ==
    /\ pc = "start"
    /\ err = "none"
    /\ heap = NoAttrs
    /\ al = NoAttrs
    /\ par = NoAttrs
    /\ ret = None
    /\ tf = NoTransforms

\* A = Translation(t) or B = Translation(t)
MakeTranslation ==
    /\ pc \in {"start", "made"}
    /\ \E nm \in {"A", "B"} \ DOMAIN tf :
       \E n \in OpenDims :
       \E t \in ArraysOf(<<n>>) :
          tf' = tf @@ (nm :> Translation(t))
    /\ pc' = "made"
    /\ UNCHANGED <<err, heap, al, par, ret>>

\* A = Rotation(R) or B = Rotation(R)
MakeRotation ==
    /\ pc \in {"start", "made"}
    /\ \E nm \in {"A", "B"} \ DOMAIN tf :
       \E n \in OpenDims :
       \E R \in ArraysOf(<<n, n>>) :
          tf' = tf @@ (nm :> Rotation(R))
    /\ pc' = "made"
    /\ UNCHANGED <<err, heap, al, par, ret>>

\* C = A.chain(B)
DoChain ==
    /\ pc = "made"
    /\ {"A", "B"} \subseteq DOMAIN tf
    /\ "C" \notin DOMAIN tf
    /\ tf' = tf @@ ("C" :> Chain(tf["A"], tf["B"]))
    /\ pc' = "chained"
    /\ UNCHANGED <<err, heap, al, par, ret>>

\* having chained, the caller evaluates C.apply(x) and A.apply(B.apply(x)) for
\* an n-vector x
ApplyComposed ==
    /\ pc = "chained"
    /\ \E x \in ArraysOf(<<DimOf(tf["C"])>>) :
          LET inner == Apply(tf["B"], x)
              direct == Apply(tf["A"], inner.value)
              chained == Apply(tf["C"], x)
          IN  /\ ret' = [x |-> x, inner |-> inner.value,
                         direct |-> direct.value, chained |-> chained.value]
              /\ err' = IF direct.err # "none" THEN direct.err ELSE chained.err
    /\ pc' = "composed"
    /\ UNCHANGED <<heap, al, par, tf>>

\* the caller evaluates T.apply(x) for one of its transforms T and x an
\* n-vector or a point set of shape (n_landmarks, n)
ApplyPoints ==
    /\ pc \in {"made", "chained"}
    /\ \E nm \in DOMAIN tf :
       \E L \in 1..MaxPts :
       \E x \in ArraysOf(<<DimOf(tf[nm])>>) \cup ArraysOf(<<L, DimOf(tf[nm])>>) :
          LET out == Apply(tf[nm], x)
          IN  /\ ret' = [name |-> nm, x |-> x, out |-> out.value]
              /\ err' = out.err
    /\ pc' = "applied"
    /\ UNCHANGED <<heap, al, par, tf>>

NextAff == MakeTranslation \/ MakeRotation \/ DoChain \/ ApplyComposed \/ ApplyPoints

SpecAff == InitAff /\ [][NextAff]_vars

----------------------------------------------------------------------------
(* Claims about the transforms (checked under SpecAff) *)

\* C5: A.chain(B) is A applied after B: A.chain(B).apply(x) equals
\* A.apply(B.apply(x)) for all affine transforms A, B and every vector x.
C5_ChainIsComposition ==
    pc = "composed" => (err = "none" /\ ret.chained = ret.direct)

\* C6: Translation(t).apply(x) succeeds and equals x + t, for x a single
\* n-vector or a point set of shape (n_landmarks, n) with any n_landmarks.
C6_TranslationAddsOffset ==
    (pc = "applied" /\ tf[ret.name].cls = "Translation")
    => /\ err = "none"
       /\ ret.out = AddRow(ret.x, TranslationOf(tf[ret.name]))

====
